---- MODULE Spec2Model ----
(***************************************************************************)
(* Model of libbitcoin-node's full_node coordinator (full_node.cpp): the  *)
(* start/run/stop/close sequence, the seeding of the block download       *)
(* reservation queue and the header/block reorganization handlers.        *)
(*                                                                         *)
(* The p2p base class and the block_chain member live in other libraries; *)
(* they are modelled by their interface contract: each call made by       *)
(* full_node is recorded in a call log and its outcome is chosen by the   *)
(* environment.  The reservations queue is modelled by its documented     *)
(* operations.                                                             *)
(*                                                                         *)
(* The console executor (executor.cpp) is modelled as the thread that     *)
(* calls executor::run: it creates the node, starts and runs it, waits in *)
(* monitor_stop and then stops, closes and releases the node, while       *)
(* signals and chain failures arrive at any time.                         *)
(*                                                                         *)
(* SpecThreads takes handle_running and handle_reindexed call by call, so *)
(* that their queue operations interleave with each other and with the    *)
(* get() of the sessions.                                                 *)
(***************************************************************************)
EXTENDS Integers, Sequences, FiniteSets, Bags, TLC

\* ------------------------------------------------------------------ bounds

\* Highest height the candidate header chain may reach.
MaxHeight == 3
\* Longest header or block list of one reorganization notification.
MaxLen == 2
\* Reservation queue length beyond which run and the reorganizations are not
\* explored.
MaxQueue == 4
\* Number of reorganization notifications the chain delivers while it syncs.
MaxEvents == 1
\* Highest fork height and longest prior queue of an arbitrary notification.
MaxFork == 1
MaxPrior == 2
\* Entries pushed into the queue while the calls of the handlers interleave.
MaxInserts == 2
\* Longest list of a notification delivered while the calls interleave.
MaxBranch == 1

\* ------------------------------------------------------------------ values

\* Two competing branches; a header is identified by its branch and height,
\* so distinct headers never share a hash.
Branches == {"a", "b"}

HeaderHash(branch, height) == <<branch, height>>

\* hash_digest values: header hashes and the all-zero null_hash.
null_hash == <<"null", 0>>

\* An absent list: the null header_const_ptr_list_const_ptr (or block list
\* pointer), distinct from every list of hashes.
nullptr == << <<"nullptr", 0>> >>

\* config::checkpoint
checkpoint(hash, height) == [hash |-> hash, height |-> height]

\* The genesis block, present in both indexes.
genesis == checkpoint(HeaderHash("a", 0), 0)

\* error codes seen by full_node; "store_block_invalid" stands for any code
\* other than success, service_stopped and operation_failed.
success == "success"

operation_failed == "operation_failed"

service_stopped == "service_stopped"

other_error == "store_block_invalid"

\* One entry of the call log: a call full_node makes on a collaborator, or an
\* invocation of the caller's handler.
Call(f, hash, height, code) == [f |-> f, hash |-> hash, height |-> height, code |-> code]

Plain(f) == Call(f, null_hash, 0, success)

Handler(code) == Call("handler", null_hash, 0, code)

\* A call that returns a bool, with what it returned.
Returned(f, ok) == Call(f, null_hash, 0, IF ok THEN "true" ELSE "false")

\* ------------------------------------------------------------------ state

VARIABLES
    stopped_,        \* p2p::stopped_, read by stopped()
    reservations_,   \* full_node::reservations_: the download queue, front first
    top_block,       \* p2p::top_block_, cached confirmed top
    top_header,      \* p2p::top_header_, cached candidate top
    header_subscribed, \* handle_reindexed is subscribed to the chain
    block_subscribed,  \* handle_reorganized is subscribed to the chain
    candidate,       \* chain: branch of the candidate header at heights 1..N
    top_valid,       \* chain: top_valid_candidate_state()->height()
    stored,          \* chain: candidate heights whose block body is stored
    confirmed,       \* chain: branch of the confirmed block at heights 1..K
    sessions,        \* network: sessions are running (between p2p::run and p2p::stop)
    started_once,    \* history: some start got past its guards to p2p::start
    events,          \* history: number of reorganization notifications delivered
    last,            \* the operation just performed: inputs, call log, result
    pc,              \* executor: where the thread of executor::run stands
    executor_stopped_, \* executor.cpp: the static interrupt flag stopped_
    node_,           \* executor::node_: "null" or "node"
    promise,         \* wait_on_stop: the code the stop handler set, or "unset"
    seeded_ec,       \* history: the code handle_seeded received, or "none"
    shutdown,        \* history: the calls of monitor_stop's shutdown path, in order
    returned,        \* what executor::run returned, or "none"
    running,         \* handle_running in progress: the calls it has still to make
    reindexing,      \* handle_reindexed in progress: the calls it has still to make
    inserted,        \* history: bag of the entries pushed into the queue
    removed,         \* history: bag of the entries pop_back found at the tail
    handed           \* history: bag of the entries get() handed to sessions

vars == <<stopped_, reservations_, top_block, top_header, header_subscribed,
          block_subscribed, candidate, top_valid, stored, confirmed, sessions,
          started_once, events, last, pc, executor_stopped_, node_, promise,
          seeded_ec, shutdown, returned, running, reindexing, inserted,
          removed, handed>>

chain_vars == <<candidate, top_valid, stored, confirmed>>

exec_vars == <<pc, executor_stopped_, node_, promise, seeded_ec, shutdown, returned>>

step_vars == <<running, reindexing, inserted, removed, handed>>

\* ------------------------------------------------------------------ helpers

Back(q) == q[Len(q)]

Heights(q) == [i \in 1..Len(q) |-> q[i].height]

\* What the operation just performed found when it was called.
Pre ==
    [stopped |-> stopped_, reservations |-> reservations_, top_block |-> top_block,
     top_header |-> top_header, header_subscribed |-> header_subscribed,
     block_subscribed |-> block_subscribed, started_once |-> started_once]

\* The record kept of the operation just performed: its name and inputs, the
\* state it was called in, the calls it made in order, and what it returned
\* ("true", "false", or "void").
Op(op, ec, fork_height, incoming, outgoing, calls, result) ==
    [op |-> op, ec |-> ec, fork_height |-> fork_height, incoming |-> incoming,
     outgoing |-> outgoing, pre |-> Pre, calls |-> calls, result |-> result]

NoArgs(op, calls, result) == Op(op, success, 0, <<>>, <<>>, calls, result)

\* The calls of a log that invoke the handler / that name function f.
HandlerCalls(calls) == SelectSeq(calls, LAMBDA c : c.f = "handler")

CallsOf(calls, f) == SelectSeq(calls, LAMBDA c : c.f = f)

Called(calls, f) == \E i \in 1..Len(calls) : calls[i].f = f

\* Position of the first call of f in a log, 0 if there is none.
FirstIndex(calls, f) ==
    IF Called(calls, f)
    THEN CHOOSE i \in 1..Len(calls) :
            calls[i].f = f /\ \A j \in 1..(i - 1) : calls[j].f # f
    ELSE 0

\* --------------------------------------------------- reservations (queue)

reservation(hash, height) == [hash |-> hash, height |-> height]

\* reservations::push_front: insert at the high-priority end.
push_front(q, hash, height) == <<reservation(hash, height)>> \o q

\* reservations::push_back: insert at the low-priority end.
push_back(q, hash, height) == Append(q, reservation(hash, height))

\* pop_back removing the tail entry whatever it is.
pop_back_any(q, hash, height) ==
    IF Len(q) > 0 THEN SubSeq(q, 1, Len(q) - 1) ELSE q

\* reservations::pop_back: remove the tail entry iff it matches hash and height.
pop_back(q, hash, height) ==
    IF Len(q) > 0 /\ Back(q).hash = hash /\ Back(q).height = height
    THEN SubSeq(q, 1, Len(q) - 1)
    ELSE q

\* ------------------------------------------------------------ chain facade

\* Height of the top candidate header.
candidate_height == Len(candidate)

\* Height of the top confirmed block.
confirmed_height == Len(confirmed)

\* chain_.get_top(out, false): the top of the confirmed (block) index.
confirmed_top ==
    IF confirmed_height = 0 THEN genesis
    ELSE checkpoint(HeaderHash(confirmed[confirmed_height], confirmed_height),
                    confirmed_height)

\* chain_.get_top(out, true): the top of the candidate (header) index.
candidate_top ==
    IF candidate_height = 0 THEN genesis
    ELSE checkpoint(HeaderHash(candidate[candidate_height], candidate_height),
                    candidate_height)

\* Hash of the candidate header at a height.
candidate_hash(height) ==
    IF height = 0 THEN genesis.hash ELSE HeaderHash(candidate[height], height)

\* chain_.get_downloadable(out hash, height): true, filling hash, iff the
\* candidate header exists and its body is not stored; hash is left as it was
\* otherwise.
get_downloadable(height) ==
    height \in 1..candidate_height /\ height \notin stored

\* ------------------------------------------------------------------- Init

\* The chain as found on disk when the node is constructed: a candidate chain
\* of some height on branch "a", validated up to top_valid, with some of the
\* bodies above that already stored, and confirmed up to top_valid.
ChainInit ==
    /\ candidate \in { [i \in 1..n |-> "a"] : n \in 0..MaxHeight }
    /\ top_valid \in 0..Len(candidate)
    /\ stored \in { (1..top_valid) \cup s : s \in SUBSET ((top_valid + 1)..Len(candidate)) }
    /\ confirmed = SubSeq(candidate, 1, top_valid)

\* No handler is in progress and the queue has no history.
NoThreads ==
    /\ running = [calls |-> <<>>, fresh |-> FALSE]
    /\ reindexing = <<>>
    /\ inserted = EmptyBag
    /\ removed = EmptyBag
    /\ handed = EmptyBag

\* No executor: the node is driven directly through its interface.
NoExecutor ==
    /\ pc = "none"
    /\ executor_stopped_ = FALSE
    /\ node_ = "node"
    /\ promise = "unset"
    /\ seeded_ec = "none"
    /\ shutdown = <<>>
    /\ returned = "none"

\* full_node::full_node: stopped, empty queue, null cached tops.
NodeInit ==
    /\ NoThreads
    /\ stopped_ = TRUE
    /\ reservations_ = <<>>
    /\ top_block = checkpoint(null_hash, 0)
    /\ top_header = checkpoint(null_hash, 0)
    /\ header_subscribed = FALSE
    /\ block_subscribed = FALSE
    /\ sessions = FALSE
    /\ started_once = FALSE
    /\ events = 0
    /\ ChainInit
    /\ last = NoArgs("none", <<>>, "void")

Init == NodeInit /\ NoExecutor

\* ------------------------------------------------------------------ start

\* p2p::start(handler): clears stopped_ and invokes the handler once with the
\* outcome of seeding.
p2p_start(net_code) == <<Plain("network.start"), Handler(net_code)>>

\* start without its not-stopped guard.
start_unguarded(chain_ok, net_code) ==
    IF ~chain_ok
    THEN /\ last' = NoArgs("start",
                        <<Returned("chain.start", FALSE), Handler(operation_failed)>>,
                        "void")
         /\ UNCHANGED <<stopped_, started_once>>
    ELSE /\ last' = NoArgs("start",
                        <<Returned("chain.start", TRUE)>> \o p2p_start(net_code),
                        "void")
         /\ stopped_' = FALSE
         /\ started_once' = TRUE

\* start with the return after the chain failure's handler call missing.
start_falls_through(chain_ok, net_code) ==
    IF ~stopped_
    THEN /\ last' = NoArgs("start", <<Handler(operation_failed)>>, "void")
         /\ UNCHANGED <<stopped_, started_once>>
    ELSE /\ last' = NoArgs("start",
                        <<Returned("chain.start", chain_ok)>> \o
                        (IF chain_ok THEN <<>> ELSE <<Handler(operation_failed)>>) \o
                        p2p_start(net_code), "void")
         /\ stopped_' = FALSE
         /\ started_once' = TRUE

\* start that starts the network before the chain.
start_network_first(chain_ok, net_code) ==
    IF ~stopped_
    THEN /\ last' = NoArgs("start", <<Handler(operation_failed)>>, "void")
         /\ UNCHANGED <<stopped_, started_once>>
    ELSE /\ last' = NoArgs("start",
                        p2p_start(net_code) \o <<Returned("chain.start", chain_ok)>>,
                        "void")
         /\ stopped_' = FALSE
         /\ started_once' = TRUE

\* full_node::start(handler)
start(chain_ok, net_code) ==
    IF ~stopped_
    THEN /\ last' = NoArgs("start", <<Handler(operation_failed)>>, "void")
         /\ UNCHANGED <<stopped_, started_once>>
    ELSE IF ~chain_ok
    THEN /\ last' = NoArgs("start",
                        <<Returned("chain.start", FALSE), Handler(operation_failed)>>,
                        "void")
         /\ UNCHANGED <<stopped_, started_once>>
    ELSE /\ last' = NoArgs("start",
                        <<Returned("chain.start", TRUE)>> \o p2p_start(net_code),
                        "void")
         /\ stopped_' = FALSE
         /\ started_once' = TRUE

Start ==
    /\ \E chain_ok \in BOOLEAN, net_code \in {success, other_error} :
          start(chain_ok, net_code)
    /\ UNCHANGED <<reservations_, top_block, top_header, header_subscribed,
                   block_subscribed, sessions, events, chain_vars>>
    /\ UNCHANGED <<exec_vars, step_vars>>

\* -------------------------------------------------------------------- run

\* p2p::run(handler): starts the sessions and invokes the handler once.
p2p_run(net_code) == <<Plain("network.run"), Handler(net_code)>>

\* The loop without the `|| height == start_height` of its condition.
RECURSIVE seed_downloadable_only(_, _, _)
seed_downloadable_only(height, valid, st) ==
    IF height > valid
    THEN LET downloadable == get_downloadable(height)
             hash == IF downloadable THEN candidate_hash(height) ELSE st.hash
             asked == Append(st.calls,
                             Call("chain.get_downloadable", null_hash, height,
                                  IF downloadable THEN "true" ELSE "false"))
         IN  IF downloadable
             THEN seed_downloadable_only(height - 1, valid,
                       [q |-> push_front(st.q, hash, height),
                        hash |-> hash,
                        calls |-> Append(asked,
                                         Call("push_front", hash, height, success))])
             ELSE seed_downloadable_only(height - 1, valid,
                       [q |-> st.q, hash |-> hash, calls |-> asked])
    ELSE st

\* The loop pushing to the back of the queue.
RECURSIVE seed_push_back(_, _, _)
seed_push_back(height, valid, st) ==
    IF height > valid
    THEN LET start_height == valid + 1
             downloadable == get_downloadable(height)
             hash == IF downloadable THEN candidate_hash(height) ELSE st.hash
             asked == Append(st.calls,
                             Call("chain.get_downloadable", null_hash, height,
                                  IF downloadable THEN "true" ELSE "false"))
         IN  IF downloadable \/ height = start_height
             THEN seed_push_back(height - 1, valid,
                       [q |-> push_back(st.q, hash, height),
                        hash |-> hash,
                        calls |-> Append(asked,
                                         Call("push_back", hash, height, success))])
             ELSE seed_push_back(height - 1, valid,
                       [q |-> st.q, hash |-> hash, calls |-> asked])
    ELSE st

\* The loop going on while height >= top_valid.
RECURSIVE seed_through_top_valid(_, _, _)
seed_through_top_valid(height, valid, st) ==
    IF height >= valid
    THEN LET start_height == valid + 1
             downloadable == get_downloadable(height)
             hash == IF downloadable THEN candidate_hash(height) ELSE st.hash
             asked == Append(st.calls,
                             Call("chain.get_downloadable", null_hash, height,
                                  IF downloadable THEN "true" ELSE "false"))
         IN  IF downloadable \/ height = start_height
             THEN seed_through_top_valid(height - 1, valid,
                       [q |-> push_front(st.q, hash, height),
                        hash |-> hash,
                        calls |-> Append(asked,
                                         Call("push_front", hash, height, success))])
             ELSE seed_through_top_valid(height - 1, valid,
                       [q |-> st.q, hash |-> hash, calls |-> asked])
    ELSE st

\* The re-seeding loop of handle_running, from `height` down to just above
\* top_valid.  st carries the queue, the local `hash` (which get_downloadable
\* fills only when it returns true) and the calls made so far.
RECURSIVE seed(_, _, _)
seed(height, valid, st) ==
    IF height > valid
    THEN LET start_height == valid + 1
             downloadable == get_downloadable(height)
             hash == IF downloadable THEN candidate_hash(height) ELSE st.hash
             asked == Append(st.calls,
                             Call("chain.get_downloadable", null_hash, height,
                                  IF downloadable THEN "true" ELSE "false"))
         IN  IF downloadable \/ height = start_height
             THEN seed(height - 1, valid,
                       [q |-> push_front(st.q, hash, height),
                        hash |-> hash,
                        calls |-> Append(asked,
                                         Call("push_front", hash, height, success))])
             ELSE seed(height - 1, valid,
                       [q |-> st.q, hash |-> hash, calls |-> asked])
    ELSE st

\* The queue, local hash and calls after the loop; `hash` is the value the
\* uninitialized local happens to hold.
seeded(hash, calls) ==
    seed(candidate_top.height, top_valid,
         [q |-> reservations_, hash |-> hash, calls |-> calls])

\* handle_running going on after the candidate get_top failed.
handle_running_ignores_candidate(ec, confirmed_ok, candidate_ok, hash, net_code) ==
    IF stopped_
    THEN /\ last' = NoArgs("run", <<Handler(service_stopped)>>, "void")
         /\ UNCHANGED <<reservations_, top_block, top_header, header_subscribed,
                        block_subscribed, sessions>>
    ELSE IF ec # success
    THEN /\ last' = NoArgs("run", <<Handler(ec)>>, "void")
         /\ UNCHANGED <<reservations_, top_block, top_header, header_subscribed,
                        block_subscribed, sessions>>
    ELSE IF ~confirmed_ok
    THEN /\ last' = NoArgs("run",
                        <<Returned("chain.get_top", FALSE), Handler(operation_failed)>>,
                        "void")
         /\ UNCHANGED <<reservations_, top_block, top_header, header_subscribed,
                        block_subscribed, sessions>>
    ELSE LET s == seeded(hash, <<Returned("chain.get_top", TRUE),
                                 Returned("chain.get_top", candidate_ok),
                                 Plain("chain.top_valid_candidate_state")>>)
         IN  /\ top_block' = confirmed_top
             /\ top_header' = candidate_top
             /\ reservations_' = s.q
             /\ header_subscribed' = TRUE
             /\ block_subscribed' = TRUE
             /\ sessions' = TRUE
             /\ last' = NoArgs("run",
                            s.calls \o <<Plain("subscribe_headers"),
                                         Plain("subscribe_blocks")>>
                                    \o p2p_run(net_code), "void")

\* full_node::handle_running(ec, handler)
handle_running(ec, confirmed_ok, candidate_ok, hash, net_code) ==
    IF stopped_
    THEN /\ last' = NoArgs("run", <<Handler(service_stopped)>>, "void")
         /\ UNCHANGED <<reservations_, top_block, top_header, header_subscribed,
                        block_subscribed, sessions>>
    ELSE IF ec # success
    THEN /\ last' = NoArgs("run", <<Handler(ec)>>, "void")
         /\ UNCHANGED <<reservations_, top_block, top_header, header_subscribed,
                        block_subscribed, sessions>>
    ELSE IF ~confirmed_ok
    THEN /\ last' = NoArgs("run",
                        <<Returned("chain.get_top", FALSE), Handler(operation_failed)>>,
                        "void")
         /\ UNCHANGED <<reservations_, top_block, top_header, header_subscribed,
                        block_subscribed, sessions>>
    ELSE IF ~candidate_ok
    THEN /\ top_block' = confirmed_top
         /\ last' = NoArgs("run",
                        <<Returned("chain.get_top", TRUE), Returned("chain.get_top", FALSE),
                          Handler(operation_failed)>>, "void")
         /\ UNCHANGED <<reservations_, top_header, header_subscribed,
                        block_subscribed, sessions>>
    ELSE LET s == seeded(hash, <<Returned("chain.get_top", TRUE),
                                 Returned("chain.get_top", TRUE),
                                 Plain("chain.top_valid_candidate_state")>>)
         IN  /\ top_block' = confirmed_top
             /\ top_header' = candidate_top
             /\ reservations_' = s.q
             /\ header_subscribed' = TRUE
             /\ block_subscribed' = TRUE
             /\ sessions' = TRUE
             /\ last' = NoArgs("run",
                            s.calls \o <<Plain("subscribe_headers"),
                                         Plain("subscribe_blocks")>>
                                    \o p2p_run(net_code), "void")

\* run with the return after the stopped guard's handler call missing.
run_falls_through(confirmed_ok, candidate_ok, hash, net_code) ==
    IF stopped_
    THEN /\ last' = NoArgs("run", <<Handler(service_stopped),
                                    Handler(service_stopped)>>, "void")
         /\ UNCHANGED <<reservations_, top_block, top_header, header_subscribed,
                        block_subscribed, sessions>>
    ELSE handle_running(success, confirmed_ok, candidate_ok, hash, net_code)

\* full_node::run(handler)
run(confirmed_ok, candidate_ok, hash, net_code) ==
    IF stopped_
    THEN /\ last' = NoArgs("run", <<Handler(service_stopped)>>, "void")
         /\ UNCHANGED <<reservations_, top_block, top_header, header_subscribed,
                        block_subscribed, sessions>>
    ELSE handle_running(success, confirmed_ok, candidate_ok, hash, net_code)

Run ==
    /\ \E confirmed_ok \in BOOLEAN, candidate_ok \in BOOLEAN,
          hash \in {null_hash, HeaderHash("b", MaxHeight + 1)},
          net_code \in {success, other_error} :
          run(confirmed_ok, candidate_ok, hash, net_code)
    /\ Len(reservations_') <= MaxQueue
    /\ UNCHANGED <<stopped_, started_once, events, chain_vars>>
    /\ UNCHANGED <<exec_vars, step_vars>>

\* ------------------------------------------------------------------- stop

\* stop written `return p2p::stop() && chain_.stop()`: the chain is not
\* stopped when the network failed to stop.
stop_short_circuit(p2p_stop, chain_stop) ==
    /\ stopped_' = TRUE
    /\ sessions' = FALSE
    /\ last' = NoArgs("stop",
                      <<Returned("network.stop", p2p_stop)>> \o
                      (IF p2p_stop THEN <<Returned("chain.stop", chain_stop)>>
                       ELSE <<>>),
                      IF p2p_stop /\ chain_stop THEN "true" ELSE "false")

\* full_node::stop(): p2p::stop() sets stopped_ and ends the sessions;
\* chain_.stop() is called whatever p2p::stop() returned.
stop(p2p_stop, chain_stop) ==
    /\ stopped_' = TRUE
    /\ sessions' = FALSE
    /\ last' = NoArgs("stop", <<Returned("network.stop", p2p_stop),
                                Returned("chain.stop", chain_stop)>>,
                      IF p2p_stop /\ chain_stop THEN "true" ELSE "false")

Stop ==
    /\ \E p2p_stop \in BOOLEAN, chain_stop \in BOOLEAN : stop(p2p_stop, chain_stop)
    /\ UNCHANGED <<reservations_, top_block, top_header, header_subscribed,
                   block_subscribed, started_once, events, chain_vars>>
    /\ UNCHANGED <<exec_vars, step_vars>>

\* close going on to close the network and the chain after stop() failed.
close_ignores_stop(p2p_stop, chain_stop, p2p_close, chain_close) ==
    /\ stopped_' = TRUE
    /\ sessions' = FALSE
    /\ last' = NoArgs("close",
                      <<Returned("network.stop", p2p_stop),
                        Returned("chain.stop", chain_stop),
                        Returned("network.close", p2p_close),
                        Returned("chain.close", chain_close)>>,
                      IF p2p_close /\ chain_close THEN "true" ELSE "false")

\* full_node::close(): stop(), then p2p::close() and chain_.close() unless
\* stop() failed.
close(p2p_stop, chain_stop, p2p_close, chain_close) ==
    /\ stopped_' = TRUE
    /\ sessions' = FALSE
    /\ last' = NoArgs("close",
                      <<Returned("network.stop", p2p_stop),
                        Returned("chain.stop", chain_stop)>> \o
                      (IF p2p_stop /\ chain_stop
                       THEN <<Returned("network.close", p2p_close),
                              Returned("chain.close", chain_close)>>
                       ELSE <<>>),
                      IF p2p_stop /\ chain_stop /\ p2p_close /\ chain_close
                      THEN "true" ELSE "false")

Close ==
    /\ \E p2p_stop \in BOOLEAN, chain_stop \in BOOLEAN,
          p2p_close \in BOOLEAN, chain_close \in BOOLEAN :
          close(p2p_stop, chain_stop, p2p_close, chain_close)
    /\ UNCHANGED <<reservations_, top_block, top_header, header_subscribed,
                   block_subscribed, started_once, events, chain_vars>>
    /\ UNCHANGED <<exec_vars, step_vars>>

\* ------------------------------------------------------- handle_reindexed

\* The first loop taking the outgoing headers in forward order.
RECURSIVE pop_outgoing_forward(_, _, _)
pop_outgoing_forward(outgoing, i, st) ==
    IF i = 0 THEN st
    ELSE pop_outgoing_forward(outgoing, i - 1,
            [q |-> pop_back(st.q, outgoing[Len(outgoing) - i + 1], st.height),
             height |-> st.height - 1,
             calls |-> Append(st.calls,
                              Call("pop_back", outgoing[Len(outgoing) - i + 1],
                                   st.height, success))])

\* The first loop of handle_reindexed: pop_back for outgoing[i], i downwards,
\* at st.height, decrementing it after each call.
RECURSIVE pop_outgoing(_, _, _)
pop_outgoing(outgoing, i, st) ==
    IF i = 0 THEN st
    ELSE pop_outgoing(outgoing, i - 1,
            [q |-> pop_back(st.q, outgoing[i], st.height),
             height |-> st.height - 1,
             calls |-> Append(st.calls,
                              Call("pop_back", outgoing[i], st.height, success))])

\* The second loop incrementing the height after each call (height++).
RECURSIVE push_incoming_post_increment(_, _, _)
push_incoming_post_increment(incoming, i, st) ==
    IF i > Len(incoming) THEN st
    ELSE push_incoming_post_increment(incoming, i + 1,
            [q |-> push_back(st.q, incoming[i], st.height),
             height |-> st.height + 1,
             calls |-> Append(st.calls,
                              Call("push_back", incoming[i], st.height, success))])

\* The second loop: push_back for incoming[i], i upwards, incrementing
\* st.height before each call.
RECURSIVE push_incoming(_, _, _)
push_incoming(incoming, i, st) ==
    IF i > Len(incoming) THEN st
    ELSE push_incoming(incoming, i + 1,
            [q |-> push_back(st.q, incoming[i], st.height + 1),
             height |-> st.height + 1,
             calls |-> Append(st.calls,
                              Call("push_back", incoming[i], st.height + 1, success))])

\* The queue, the final `height` and the calls of both loops.
reindexed(fork_height, incoming, outgoing) ==
    push_incoming(incoming, 1,
        pop_outgoing(outgoing, Len(outgoing),
            [q |-> reservations_, height |-> fork_height + Len(outgoing),
             calls |-> <<>>]))

\* handle_reindexed returning after the error is logged, without stop().
handle_reindexed_error_no_stop(ec, fork_height, incoming, outgoing) ==
    IF stopped_ \/ ec = service_stopped
    THEN /\ last' = Op("handle_reindexed", ec, fork_height, incoming, outgoing,
                       <<>>, "false")
         /\ header_subscribed' = FALSE
         /\ UNCHANGED <<stopped_, sessions, reservations_, top_header, top_block>>
    ELSE IF ec # success
    THEN /\ last' = Op("handle_reindexed", ec, fork_height, incoming, outgoing,
                       <<>>, "false")
         /\ header_subscribed' = FALSE
         /\ UNCHANGED <<stopped_, sessions, reservations_, top_header, top_block>>
    ELSE IF incoming = nullptr \/ Len(incoming) = 0
    THEN /\ last' = Op("handle_reindexed", ec, fork_height, incoming, outgoing,
                       <<>>, "true")
         /\ UNCHANGED <<stopped_, sessions, header_subscribed, reservations_,
                        top_header, top_block>>
    ELSE LET r == reindexed(fork_height, incoming, outgoing)
         IN  /\ reservations_' = r.q
             /\ top_header' = checkpoint(incoming[Len(incoming)], r.height)
             /\ last' = Op("handle_reindexed", ec, fork_height, incoming, outgoing,
                           r.calls, "true")
             /\ UNCHANGED <<stopped_, sessions, header_subscribed, top_block>>

\* handle_reindexed testing outgoing, not incoming, for "nothing to do".
handle_reindexed_tests_outgoing(ec, fork_height, incoming, outgoing) ==
    IF stopped_ \/ ec = service_stopped
    THEN /\ last' = Op("handle_reindexed", ec, fork_height, incoming, outgoing,
                       <<>>, "false")
         /\ header_subscribed' = FALSE
         /\ UNCHANGED <<stopped_, sessions, reservations_, top_header, top_block>>
    ELSE IF ec # success
    THEN /\ last' = Op("handle_reindexed", ec, fork_height, incoming, outgoing,
                       <<Plain("network.stop"), Plain("chain.stop")>>, "false")
         /\ stopped_' = TRUE
         /\ sessions' = FALSE
         /\ header_subscribed' = FALSE
         /\ UNCHANGED <<reservations_, top_header, top_block>>
    ELSE IF incoming = nullptr \/ Len(outgoing) = 0
    THEN /\ last' = Op("handle_reindexed", ec, fork_height, incoming, outgoing,
                       <<>>, "true")
         /\ UNCHANGED <<stopped_, sessions, header_subscribed, reservations_,
                        top_header, top_block>>
    ELSE LET r == reindexed(fork_height, incoming, outgoing)
         IN  /\ reservations_' = r.q
             /\ top_header' = checkpoint(IF Len(incoming) = 0 THEN null_hash
                                         ELSE incoming[Len(incoming)], r.height)
             /\ last' = Op("handle_reindexed", ec, fork_height, incoming, outgoing,
                           r.calls, "true")
             /\ UNCHANGED <<stopped_, sessions, header_subscribed, top_block>>

\* handle_reindexed caching the new top with set_top_block.
handle_reindexed_sets_top_block(ec, fork_height, incoming, outgoing) ==
    IF stopped_ \/ ec = service_stopped
    THEN /\ last' = Op("handle_reindexed", ec, fork_height, incoming, outgoing,
                       <<>>, "false")
         /\ header_subscribed' = FALSE
         /\ UNCHANGED <<stopped_, sessions, reservations_, top_header, top_block>>
    ELSE IF ec # success
    THEN /\ last' = Op("handle_reindexed", ec, fork_height, incoming, outgoing,
                       <<Plain("network.stop"), Plain("chain.stop")>>, "false")
         /\ stopped_' = TRUE
         /\ sessions' = FALSE
         /\ header_subscribed' = FALSE
         /\ UNCHANGED <<reservations_, top_header, top_block>>
    ELSE IF incoming = nullptr \/ Len(incoming) = 0
    THEN /\ last' = Op("handle_reindexed", ec, fork_height, incoming, outgoing,
                       <<>>, "true")
         /\ UNCHANGED <<stopped_, sessions, header_subscribed, reservations_,
                        top_header, top_block>>
    ELSE LET r == reindexed(fork_height, incoming, outgoing)
         IN  /\ reservations_' = r.q
             /\ top_block' = checkpoint(incoming[Len(incoming)], r.height)
             /\ last' = Op("handle_reindexed", ec, fork_height, incoming, outgoing,
                           r.calls, "true")
             /\ UNCHANGED <<stopped_, sessions, header_subscribed, top_header>>

\* full_node::handle_reindexed(ec, fork_height, incoming, outgoing); the lists
\* hold the hashes of the headers.
handle_reindexed(ec, fork_height, incoming, outgoing) ==
    IF stopped_ \/ ec = service_stopped
    THEN /\ last' = Op("handle_reindexed", ec, fork_height, incoming, outgoing,
                       <<>>, "false")
         /\ header_subscribed' = FALSE
         /\ UNCHANGED <<stopped_, sessions, reservations_, top_header, top_block>>
    ELSE IF ec # success
    THEN /\ last' = Op("handle_reindexed", ec, fork_height, incoming, outgoing,
                       <<Plain("network.stop"), Plain("chain.stop")>>, "false")
         /\ stopped_' = TRUE
         /\ sessions' = FALSE
         /\ header_subscribed' = FALSE
         /\ UNCHANGED <<reservations_, top_header, top_block>>
    ELSE IF incoming = nullptr \/ Len(incoming) = 0
    THEN /\ last' = Op("handle_reindexed", ec, fork_height, incoming, outgoing,
                       <<>>, "true")
         /\ UNCHANGED <<stopped_, sessions, header_subscribed, reservations_,
                        top_header, top_block>>
    ELSE LET r == reindexed(fork_height, incoming, outgoing)
         IN  /\ reservations_' = r.q
             /\ top_header' = checkpoint(incoming[Len(incoming)], r.height)
             /\ last' = Op("handle_reindexed", ec, fork_height, incoming, outgoing,
                           r.calls, "true")
             /\ UNCHANGED <<stopped_, sessions, header_subscribed, top_block>>

\* Hashes of the headers of `branches` placed at heights from + 1, from + 2, ...
headers(branches, from) ==
    [i \in 1..Len(branches) |-> HeaderHash(branches[i], from + i)]

\* Lists of at most n branches.
BranchLists(n) == UNION { [1..k -> Branches] : k \in 0..n }

\* The chain's header organizer replaces the candidate headers above
\* fork_height by the incoming ones and notifies the subscriber; bodies stored
\* and validated above the fork belong to the outgoing headers.
NotifyReindexed ==
    \E fork_height \in 0..candidate_height, branches \in BranchLists(MaxLen) :
        /\ fork_height + Len(branches) <= MaxHeight
        /\ handle_reindexed(success, fork_height, headers(branches, fork_height),
               headers(SubSeq(candidate, fork_height + 1, candidate_height),
                       fork_height))
        /\ IF ~stopped_ /\ Len(branches) > 0
           THEN /\ candidate' = SubSeq(candidate, 1, fork_height) \o branches
                /\ top_valid' = IF top_valid < fork_height
                                THEN top_valid ELSE fork_height
                /\ stored' = stored \cap (1..fork_height)
           ELSE UNCHANGED <<candidate, top_valid, stored>>

\* A failure (or the stop of the chain) is notified with no lists.
FailReindexed ==
    /\ \E ec \in {service_stopped, other_error} : handle_reindexed(ec, 0, <<>>, <<>>)
    /\ UNCHANGED <<candidate, top_valid, stored>>

HandleReindexed ==
    /\ header_subscribed
    /\ events < MaxEvents
    /\ events' = events + 1
    /\ (NotifyReindexed \/ FailReindexed)
    /\ Len(reservations_') <= MaxQueue
    /\ UNCHANGED <<block_subscribed, started_once, confirmed>>
    /\ UNCHANGED <<exec_vars, step_vars>>

\* ------------------------------------------------------ handle_reorganized

\* handle_reorganized with a first guard of stopped() alone.
handle_reorganized_stopped_only(ec, fork_height, incoming, outgoing) ==
    IF stopped_
    THEN /\ last' = Op("handle_reorganized", ec, fork_height, incoming, outgoing,
                       <<>>, "false")
         /\ block_subscribed' = FALSE
         /\ UNCHANGED <<stopped_, sessions, top_block, reservations_, top_header>>
    ELSE IF ec # success
    THEN /\ last' = Op("handle_reorganized", ec, fork_height, incoming, outgoing,
                       <<Plain("network.stop"), Plain("chain.stop")>>, "false")
         /\ stopped_' = TRUE
         /\ sessions' = FALSE
         /\ block_subscribed' = FALSE
         /\ UNCHANGED <<top_block, reservations_, top_header>>
    ELSE IF incoming = nullptr \/ Len(incoming) = 0
    THEN /\ last' = Op("handle_reorganized", ec, fork_height, incoming, outgoing,
                       <<>>, "true")
         /\ UNCHANGED <<stopped_, sessions, block_subscribed, top_block, reservations_,
                        top_header>>
    ELSE /\ top_block' = checkpoint(incoming[Len(incoming)],
                                    fork_height + Len(incoming))
         /\ last' = Op("handle_reorganized", ec, fork_height, incoming, outgoing,
                       <<>>, "true")
         /\ UNCHANGED <<stopped_, sessions, block_subscribed, reservations_, top_header>>

\* handle_reorganized caching the new top with set_top_header.
handle_reorganized_sets_top_header(ec, fork_height, incoming, outgoing) ==
    IF stopped_ \/ ec = service_stopped
    THEN /\ last' = Op("handle_reorganized", ec, fork_height, incoming, outgoing,
                       <<>>, "false")
         /\ block_subscribed' = FALSE
         /\ UNCHANGED <<stopped_, sessions, top_block, reservations_, top_header>>
    ELSE IF ec # success
    THEN /\ last' = Op("handle_reorganized", ec, fork_height, incoming, outgoing,
                       <<Plain("network.stop"), Plain("chain.stop")>>, "false")
         /\ stopped_' = TRUE
         /\ sessions' = FALSE
         /\ block_subscribed' = FALSE
         /\ UNCHANGED <<top_block, reservations_, top_header>>
    ELSE IF incoming = nullptr \/ Len(incoming) = 0
    THEN /\ last' = Op("handle_reorganized", ec, fork_height, incoming, outgoing,
                       <<>>, "true")
         /\ UNCHANGED <<stopped_, sessions, block_subscribed, top_block, reservations_,
                        top_header>>
    ELSE /\ top_header' = checkpoint(incoming[Len(incoming)],
                                     fork_height + Len(incoming))
         /\ last' = Op("handle_reorganized", ec, fork_height, incoming, outgoing,
                       <<>>, "true")
         /\ UNCHANGED <<stopped_, sessions, block_subscribed, reservations_, top_block>>

\* full_node::handle_reorganized(ec, fork_height, incoming, outgoing); the
\* lists hold the hashes of the blocks.
handle_reorganized(ec, fork_height, incoming, outgoing) ==
    IF stopped_ \/ ec = service_stopped
    THEN /\ last' = Op("handle_reorganized", ec, fork_height, incoming, outgoing,
                       <<>>, "false")
         /\ block_subscribed' = FALSE
         /\ UNCHANGED <<stopped_, sessions, top_block, reservations_, top_header>>
    ELSE IF ec # success
    THEN /\ last' = Op("handle_reorganized", ec, fork_height, incoming, outgoing,
                       <<Plain("network.stop"), Plain("chain.stop")>>, "false")
         /\ stopped_' = TRUE
         /\ sessions' = FALSE
         /\ block_subscribed' = FALSE
         /\ UNCHANGED <<top_block, reservations_, top_header>>
    ELSE IF incoming = nullptr \/ Len(incoming) = 0
    THEN /\ last' = Op("handle_reorganized", ec, fork_height, incoming, outgoing,
                       <<>>, "true")
         /\ UNCHANGED <<stopped_, sessions, block_subscribed, top_block, reservations_,
                        top_header>>
    ELSE /\ top_block' = checkpoint(incoming[Len(incoming)],
                                    fork_height + Len(incoming))
         /\ last' = Op("handle_reorganized", ec, fork_height, incoming, outgoing,
                       <<>>, "true")
         /\ UNCHANGED <<stopped_, sessions, block_subscribed, reservations_, top_header>>

\* Height below which the confirmed and the candidate chain agree.
common_height ==
    CHOOSE h \in 0..confirmed_height :
        /\ h <= candidate_height
        /\ SubSeq(confirmed, 1, h) = SubSeq(candidate, 1, h)
        /\ \A k \in (h + 1)..confirmed_height :
              k > candidate_height \/ SubSeq(confirmed, 1, k) # SubSeq(candidate, 1, k)

\* The chain's block organizer confirms candidate blocks above the fork point
\* with the confirmed chain and notifies the subscriber.
NotifyReorganized ==
    \E n \in 0..MaxLen :
        LET fork_height == common_height
        IN  /\ fork_height + n <= candidate_height
            /\ handle_reorganized(success, fork_height,
                   headers(SubSeq(candidate, fork_height + 1, fork_height + n),
                           fork_height),
                   headers(SubSeq(confirmed, fork_height + 1, confirmed_height),
                           fork_height))
            /\ IF ~stopped_ /\ n > 0
               THEN /\ confirmed' = SubSeq(candidate, 1, fork_height + n)
                    /\ stored' = stored \cup (1..(fork_height + n))
                    /\ top_valid' = IF top_valid > fork_height + n
                                    THEN top_valid ELSE fork_height + n
               ELSE UNCHANGED <<confirmed, stored, top_valid>>

\* A failure (or the stop of the chain) is notified with no lists.
FailReorganized ==
    /\ \E ec \in {service_stopped, other_error} : handle_reorganized(ec, 0, <<>>, <<>>)
    /\ UNCHANGED <<confirmed, stored, top_valid>>

HandleReorganized ==
    /\ block_subscribed
    /\ events < MaxEvents
    /\ events' = events + 1
    /\ (NotifyReorganized \/ FailReorganized)
    /\ UNCHANGED <<header_subscribed, started_once, candidate>>
    /\ UNCHANGED <<exec_vars, step_vars>>

\* ---------------------------------------------------------- get_reservation

\* full_node::get_reservation(): reservations_.get() hands the front entry to
\* a session (an empty handle, and no change, when the queue is empty).
get_reservation ==
    /\ reservations_' = IF Len(reservations_) > 0 THEN Tail(reservations_) ELSE <<>>
    /\ last' = NoArgs("get_reservation", <<Plain("reservations.get")>>,
                      IF Len(reservations_) > 0 THEN "true" ELSE "false")

GetReservation ==
    /\ sessions
    /\ get_reservation
    /\ UNCHANGED <<stopped_, top_block, top_header, header_subscribed,
                   block_subscribed, sessions, started_once, events, chain_vars>>
    /\ UNCHANGED <<exec_vars, step_vars>>

\* ---------------------------------------------------------- specifications

\* A header or block notification of failure, or of the chain stopping.
HandleFailure ==
    \/ /\ header_subscribed
       /\ FailReindexed
       /\ UNCHANGED <<block_subscribed, started_once, events, confirmed>>
       /\ UNCHANGED <<exec_vars, step_vars>>
    \/ /\ block_subscribed
       /\ FailReorganized
       /\ UNCHANGED <<header_subscribed, started_once, events, candidate>>
       /\ UNCHANGED <<exec_vars, step_vars>>

\* The node driven through its public interface, with sessions taking
\* reservations and the chain notifying failures; the chain's content is the
\* one found at construction.
Next ==
    \/ Start
    \/ Run
    \/ Stop
    \/ Close
    \/ HandleFailure
    \/ GetReservation

Spec == Init /\ [][Next]_vars

\* The same with the chain reorganizing while the node runs.
SyncNext ==
    \/ Next
    \/ HandleReindexed
    \/ HandleReorganized

SpecSync == Init /\ [][SyncNext]_vars

\* The reorganization handlers applied once to any notification in any state
\* of the queue.
Entries == { reservation(HeaderHash(b, h), h) : b \in Branches, h \in 1..(MaxFork + MaxLen) }

Queues(n) == UNION { [1..k -> Entries] : k \in 0..n }

InitReorg ==
    /\ NoThreads
    /\ stopped_ \in BOOLEAN
    /\ reservations_ \in Queues(MaxPrior)
    /\ top_block = genesis
    /\ top_header = genesis
    /\ header_subscribed = TRUE
    /\ block_subscribed = TRUE
    /\ sessions = ~stopped_
    /\ started_once = TRUE
    /\ events = 0
    /\ candidate = <<>>
    /\ top_valid = 0
    /\ stored = {}
    /\ confirmed = <<>>
    /\ last = NoArgs("none", <<>>, "void")
    /\ NoExecutor

AnyReindexed ==
    /\ last.op = "none"
    /\ \/ \E fork_height \in 0..MaxFork,
             incoming \in BranchLists(MaxLen), outgoing \in BranchLists(MaxLen) :
             handle_reindexed(success, fork_height, headers(incoming, fork_height),
                              headers(outgoing, fork_height))
       \/ \E fork_height \in 0..MaxFork, outgoing \in BranchLists(MaxLen) :
             handle_reindexed(success, fork_height, nullptr,
                              headers(outgoing, fork_height))
       \/ \E ec \in {service_stopped, other_error} : handle_reindexed(ec, 0, <<>>, <<>>)
    /\ UNCHANGED <<block_subscribed, started_once, events, chain_vars>>
    /\ UNCHANGED <<exec_vars, step_vars>>

AnyReorganized ==
    /\ last.op = "none"
    /\ \/ \E fork_height \in 0..MaxFork,
             incoming \in BranchLists(MaxLen), outgoing \in BranchLists(MaxLen) :
             handle_reorganized(success, fork_height, headers(incoming, fork_height),
                                headers(outgoing, fork_height))
       \/ \E fork_height \in 0..MaxFork, outgoing \in BranchLists(MaxLen) :
             handle_reorganized(success, fork_height, nullptr,
                                headers(outgoing, fork_height))
       \/ \E ec \in {service_stopped, other_error} : handle_reorganized(ec, 0, <<>>, <<>>)
    /\ UNCHANGED <<header_subscribed, started_once, events, chain_vars>>
    /\ UNCHANGED <<exec_vars, step_vars>>

ReorgNext ==
    \/ AnyReindexed
    \/ AnyReorganized

SpecReorg == InitReorg /\ [][ReorgNext]_vars

\* --------------------------------------------------------------- executor

node_vars == <<stopped_, reservations_, top_block, top_header, header_subscribed,
               block_subscribed, sessions, started_once, events, last>>

\* The sentinel initialize_interrupt is first called with.
no_interrupt == 0

\* SIGINT, SIGABRT, SIGTERM
Signals == {2, 6, 15}

\* The code the handler of a node operation received.
handler_code(op) == HandlerCalls(op.calls)[1].code

\* The executor about to run: no node yet, no interrupt.
InitExecutor ==
    /\ pc = "run"
    /\ executor_stopped_ = FALSE
    /\ node_ = "null"
    /\ promise = "unset"
    /\ seeded_ec = "none"
    /\ shutdown = <<>>
    /\ returned = "none"

InitExec == NodeInit /\ InitExecutor

\* executor::run up to the return of node_->start: verify(), the creation of
\* the node, start, and handle_seeded's test of the code it receives.
executor_run(verified, chain_ok, net_code) ==
    /\ pc = "run"
    /\ UNCHANGED step_vars
    /\ IF ~verified
       THEN /\ returned' = "false"
            /\ pc' = "done"
            /\ UNCHANGED <<stopped_, started_once, last, node_, seeded_ec,
                           executor_stopped_>>
       ELSE /\ node_' = "node"
            /\ start(chain_ok, net_code)
            /\ seeded_ec' = handler_code(last')
            /\ executor_stopped_' = (executor_stopped_ \/ seeded_ec' # success)
            /\ pc' = IF seeded_ec' = success THEN "seeded" ELSE "monitor"
            /\ UNCHANGED returned
    /\ UNCHANGED <<promise, shutdown>>
    /\ UNCHANGED <<reservations_, top_block, top_header, header_subscribed,
                   block_subscribed, sessions, events, chain_vars>>

ExecutorRun ==
    \E verified \in BOOLEAN, chain_ok \in BOOLEAN, net_code \in {success, other_error} :
        executor_run(verified, chain_ok, net_code)

\* executor::handle_seeded with success: node_->run, whose handler
\* (handle_synchronized) sets the interrupt flag on an error.
handle_seeded(confirmed_ok, candidate_ok, hash, net_code) ==
    /\ pc = "seeded"
    /\ UNCHANGED step_vars
    /\ run(confirmed_ok, candidate_ok, hash, net_code)
    /\ executor_stopped_' = (executor_stopped_ \/ handler_code(last') # success)
    /\ pc' = "monitor"
    /\ UNCHANGED <<stopped_, started_once, events, chain_vars>>
    /\ UNCHANGED <<node_, promise, seeded_ec, shutdown, returned>>

HandleSeeded ==
    \E confirmed_ok \in BOOLEAN, candidate_ok \in BOOLEAN,
       hash \in {null_hash, HeaderHash("b", MaxHeight + 1)},
       net_code \in {success, other_error} :
        handle_seeded(confirmed_ok, candidate_ok, hash, net_code)

\* initialize_interrupt(code) for a signal: sets the flag if it is not set.
initialize_interrupt(code) ==
    /\ code # no_interrupt
    /\ UNCHANGED step_vars
    /\ ~executor_stopped_
    /\ executor_stopped_' = TRUE
    /\ UNCHANGED <<pc, node_, promise, seeded_ec, shutdown, returned>>
    /\ UNCHANGED node_vars
    /\ UNCHANGED chain_vars

Interrupt ==
    /\ pc # "done"
    /\ \E code \in Signals : initialize_interrupt(code)

\* The loop of monitor_stop tested on the interrupt flag alone.
monitor_stop_interrupt_only ==
    /\ pc = "monitor"
    /\ UNCHANGED step_vars
    /\ executor_stopped_
    /\ pc' = "stop"
    /\ UNCHANGED <<executor_stopped_, node_, promise, seeded_ec, shutdown, returned>>
    /\ UNCHANGED node_vars
    /\ UNCHANGED chain_vars

\* monitor_stop: `while (!stopped_ && !node_->stopped()) sleep` is left once
\* the interrupt flag is set or the node reports stopped.
monitor_stop ==
    /\ pc = "monitor"
    /\ UNCHANGED step_vars
    /\ (executor_stopped_ \/ stopped_)
    /\ pc' = "stop"
    /\ UNCHANGED <<executor_stopped_, node_, promise, seeded_ec, shutdown, returned>>
    /\ UNCHANGED node_vars
    /\ UNCHANGED chain_vars

\* node_->stop(handler): the node is stopped and the handler (handle_stopped)
\* is invoked once with the outcome, which it stores in the promise.
node_stop(p2p_stop, chain_stop) ==
    /\ stop(p2p_stop, chain_stop)
    /\ promise' = IF p2p_stop /\ chain_stop THEN success ELSE other_error

\* monitor_stop after the loop: node_->stop(handler).
monitor_stop_stop(p2p_stop, chain_stop) ==
    /\ pc = "stop"
    /\ UNCHANGED step_vars
    /\ node_stop(p2p_stop, chain_stop)
    /\ shutdown' = Append(shutdown, "stop")
    /\ pc' = "close"
    /\ UNCHANGED <<executor_stopped_, node_, seeded_ec, returned>>
    /\ UNCHANGED <<reservations_, top_block, top_header, header_subscribed,
                   block_subscribed, started_once, events, chain_vars>>

MonitorStop ==
    \E p2p_stop \in BOOLEAN, chain_stop \in BOOLEAN : monitor_stop_stop(p2p_stop, chain_stop)

\* monitor_stop: node_->close(), whose result is not used.
monitor_stop_close(p2p_stop, chain_stop, p2p_close, chain_close) ==
    /\ pc = "close"
    /\ UNCHANGED step_vars
    /\ close(p2p_stop, chain_stop, p2p_close, chain_close)
    /\ shutdown' = Append(shutdown, "close")
    /\ pc' = "release"
    /\ UNCHANGED <<executor_stopped_, node_, promise, seeded_ec, returned>>
    /\ UNCHANGED <<reservations_, top_block, top_header, header_subscribed,
                   block_subscribed, started_once, events, chain_vars>>

MonitorClose ==
    \E p2p_stop \in BOOLEAN, chain_stop \in BOOLEAN,
       p2p_close \in BOOLEAN, chain_close \in BOOLEAN :
        monitor_stop_close(p2p_stop, chain_stop, p2p_close, chain_close)

\* monitor_stop: node_ = nullptr releases the node, whose destructor calls
\* close() once more.
monitor_stop_release(p2p_stop, chain_stop, p2p_close, chain_close) ==
    /\ pc = "release"
    /\ UNCHANGED step_vars
    /\ node_' = "null"
    /\ close(p2p_stop, chain_stop, p2p_close, chain_close)
    /\ shutdown' = Append(shutdown, "release")
    /\ pc' = "wait"
    /\ UNCHANGED <<executor_stopped_, promise, seeded_ec, returned>>
    /\ UNCHANGED <<reservations_, top_block, top_header, header_subscribed,
                   block_subscribed, started_once, events, chain_vars>>

MonitorRelease ==
    \E p2p_stop \in BOOLEAN, chain_stop \in BOOLEAN,
       p2p_close \in BOOLEAN, chain_close \in BOOLEAN :
        monitor_stop_release(p2p_stop, chain_stop, p2p_close, chain_close)

\* wait_on_stop after monitor_stop: the code of the promise decides what run
\* returns.
wait_on_stop ==
    /\ pc = "wait"
    /\ UNCHANGED step_vars
    /\ promise # "unset"
    /\ returned' = IF promise # success THEN "false" ELSE "true"
    /\ pc' = "done"
    /\ UNCHANGED <<executor_stopped_, node_, promise, seeded_ec, shutdown>>
    /\ UNCHANGED node_vars
    /\ UNCHANGED chain_vars

\* The chain notifies a failure to the handlers of the executor's node.
NodeFailure ==
    /\ node_ = "node"
    /\ HandleFailure

\* The steps of the thread that called executor::run.
ExecutorThread ==
    \/ ExecutorRun
    \/ HandleSeeded
    \/ monitor_stop
    \/ MonitorStop
    \/ MonitorClose
    \/ MonitorRelease
    \/ wait_on_stop

ExecNext ==
    \/ ExecutorThread
    \/ Interrupt
    \/ NodeFailure

\* The executor with signals and chain failures arriving at any time.
SpecExec == InitExec /\ [][ExecNext]_vars

\* The same with the thread of executor::run scheduled fairly: it is never
\* blocked but by the loop of monitor_stop and by the promise.
SpecExecFair == SpecExec /\ WF_vars(ExecutorThread)

\* ---------------------------------------------------------------- threads

\* handle_running, the header callback and the sessions run on different
\* threads: the calls of a handler are made one at a time, with the calls of
\* the others in between.  The queue serializes its own operations (spec
\* 4.1), so each call on it is one step.

\* The bag of one entry.
One(hash, height) == SetToBag({reservation(hash, height)})

\* The calls handle_running makes once both tops are cached, in the order of
\* the code, with handle_running subscribing before it seeds.
run_calls_subscribes_first(hash, net_code) ==
    <<Plain("subscribe_headers"), Plain("subscribe_blocks")>>
        \o seeded(hash, <<>>).calls \o p2p_run(net_code)

\* The calls handle_running makes once both tops are cached, in the order of
\* the code: the seeding loop, the two subscriptions, p2p::run.
run_calls(hash, net_code) ==
    seeded(hash, <<>>).calls
        \o <<Plain("subscribe_headers"), Plain("subscribe_blocks")>>
        \o p2p_run(net_code)

\* The calls handle_reindexed makes for a non-empty incoming list: the pops,
\* the pushes, set_top_header.
reindexed_calls(fork_height, incoming, outgoing) ==
    LET r == reindexed(fork_height, incoming, outgoing)
    IN  Append(r.calls,
               Call("set_top_header", incoming[Len(incoming)], r.height, success))

\* Number of entries the calls push.
Pushes(calls) ==
    Len(SelectSeq(calls, LAMBDA c : c.f \in {"push_front", "push_back"}))

\* One call of a handler takes effect.
perform(c) ==
    /\ reservations_' =
          CASE c.f = "push_front" -> push_front(reservations_, c.hash, c.height)
            [] c.f = "push_back" -> push_back(reservations_, c.hash, c.height)
            [] c.f = "pop_back" -> pop_back(reservations_, c.hash, c.height)
            [] OTHER -> reservations_
    /\ inserted' = IF c.f \in {"push_front", "push_back"}
                   THEN inserted (+) One(c.hash, c.height)
                   ELSE inserted
    /\ removed' = IF /\ c.f = "pop_back"
                     /\ Len(reservations_) > 0
                     /\ Back(reservations_) = reservation(c.hash, c.height)
                  THEN removed (+) One(c.hash, c.height)
                  ELSE removed
    /\ header_subscribed' = (header_subscribed \/ c.f = "subscribe_headers")
    /\ block_subscribed' = (block_subscribed \/ c.f = "subscribe_blocks")
    /\ sessions' = (sessions \/ c.f = "network.run")
    /\ top_header' = IF c.f = "set_top_header"
                     THEN checkpoint(c.hash, c.height)
                     ELSE top_header

\* run on a started node enters handle_running, which fetches and caches the
\* tops and has its other calls still to make.
begin_run(confirmed_ok, candidate_ok, hash, net_code) ==
    /\ ~stopped_
    /\ running.calls = <<>>
    /\ IF ~confirmed_ok
       THEN UNCHANGED <<top_block, top_header, running>>
       ELSE IF ~candidate_ok
       THEN /\ top_block' = confirmed_top
            /\ UNCHANGED <<top_header, running>>
       ELSE /\ top_block' = confirmed_top
            /\ top_header' = candidate_top
            /\ running' = [calls |-> run_calls(hash, net_code),
                           fresh |-> ~sessions /\ ~header_subscribed
                                               /\ ~block_subscribed]

BeginRun ==
    /\ \E confirmed_ok \in BOOLEAN, candidate_ok \in BOOLEAN,
          hash \in {null_hash, HeaderHash("b", MaxHeight + 1)} :
          begin_run(confirmed_ok, candidate_ok, hash, success)
    /\ BagCardinality(inserted) + Pushes(running'.calls) + Pushes(reindexing)
          <= MaxInserts
    /\ UNCHANGED <<stopped_, reservations_, header_subscribed, block_subscribed,
                   sessions, started_once, events, last, reindexing, inserted,
                   removed, handed, chain_vars, exec_vars>>

\* handle_running makes its next call.
RunStep ==
    /\ running.calls # <<>>
    /\ perform(Head(running.calls))
    /\ running' = [running EXCEPT !.calls = Tail(@)]
    /\ UNCHANGED <<stopped_, top_block, started_once, events, last, reindexing,
                   handed, chain_vars, exec_vars>>

\* The chain calls handle_reindexed with success: past its guards the
\* handler has its calls still to make.
begin_reindexed(fork_height, incoming, outgoing) ==
    /\ ~stopped_
    /\ reindexing = <<>>
    /\ reindexing' = IF incoming = nullptr \/ Len(incoming) = 0
                     THEN <<>>
                     ELSE reindexed_calls(fork_height, incoming, outgoing)

BeginReindexed ==
    /\ header_subscribed
    /\ \E fork_height \in 0..MaxFork, i \in BranchLists(MaxBranch),
          o \in BranchLists(MaxBranch) :
          begin_reindexed(fork_height, headers(i, fork_height),
                          headers(o, fork_height))
    /\ reindexing' # <<>>
    /\ BagCardinality(inserted) + Pushes(running.calls) + Pushes(reindexing')
          <= MaxInserts
    /\ UNCHANGED <<stopped_, reservations_, top_block, top_header,
                   header_subscribed, block_subscribed, sessions, started_once,
                   events, last, running, inserted, removed, handed, chain_vars,
                   exec_vars>>

\* handle_reindexed makes its next call.
ReindexedStep ==
    /\ reindexing # <<>>
    /\ perform(Head(reindexing))
    /\ reindexing' = Tail(reindexing)
    /\ UNCHANGED <<stopped_, top_block, started_once, events, last, running,
                   handed, chain_vars, exec_vars>>

\* A session calls get_reservation and holds what it is handed.
SessionGet ==
    /\ sessions
    /\ handed' = IF Len(reservations_) > 0
                 THEN handed (+) SetToBag({Head(reservations_)})
                 ELSE handed
    /\ get_reservation
    /\ UNCHANGED <<stopped_, top_block, top_header, header_subscribed,
                   block_subscribed, sessions, started_once, events, running,
                   reindexing, inserted, removed, chain_vars, exec_vars>>

\* The node from its construction, its queue empty, with the calls of
\* handle_running, of handle_reindexed and of the sessions interleaved.
ThreadsNext ==
    \/ Start
    \/ BeginRun
    \/ RunStep
    \/ BeginReindexed
    \/ ReindexedStep
    \/ SessionGet

SpecThreads == Init /\ [][ThreadsNext]_vars

\* ----------------------------------------------------------------- claims

\* handle_reindexed has just gone through its loops: no error, node not
\* stopped, incoming present and not empty.
Reindexed ==
    /\ last.op = "handle_reindexed"
    /\ last.ec = success
    /\ ~last.pre.stopped
    /\ last.incoming # nullptr
    /\ Len(last.incoming) > 0

\* run has just gone through its seeding step.
Seeded == last.op = "run" /\ Called(last.calls, "subscribe_headers")

\* C1: after handle_reindexed returns for a call with no error, node not
\* stopped and non-empty incoming, the entry at the back of the queue has
\* height fork_height + |incoming|, whatever the fork height, the lists and
\* the queue before.
C1_TailHeight ==
    Reindexed =>
        /\ Len(reservations_) > 0
        /\ Back(reservations_).height = last.fork_height + Len(last.incoming)

\* C1 witness: a reorganization with outgoing headers that are not all at the
\* tail of a non-empty queue.
C1_Witness ==
    /\ Reindexed
    /\ Len(last.outgoing) = 2
    /\ Len(last.pre.reservations) = 2
    /\ Len(reservations_) = 3
    /\ last.fork_height = 1

\* C2 as stated: after the seeding step of run the queue holds an entry at
\* height top_valid + 1, for every candidate height and top-valid height.
C2_Original ==
    Seeded => \E i \in 1..Len(reservations_) : reservations_[i].height = top_valid + 1

\* C2 amended: after the seeding step of run the queue holds an entry at
\* height top_valid + 1 whenever the candidate height exceeds top_valid.
C2_SeedsStartHeight ==
    (Seeded /\ candidate_height > top_valid) =>
        \E i \in 1..Len(reservations_) : reservations_[i].height = top_valid + 1

\* C2 witness: the body at top_valid + 1 is already stored and the entry is
\* pushed all the same.
C2_Witness ==
    /\ Seeded
    /\ candidate_height > top_valid
    /\ (top_valid + 1) \in stored
    /\ top_valid > 0

\* C3 as stated: start on a node that was started before (whatever happened
\* to it since) invokes the handler with operation_failed.
C3_Original ==
    (last.op = "start" /\ last.pre.started_once) =>
        HandlerCalls(last.calls) = <<Handler(operation_failed)>>

\* C3 amended: start on a node that is not stopped invokes the handler with
\* operation_failed and starts neither the chain nor the network; whether the
\* node was started before does not matter.
C3_StartWhenNotStopped ==
    (last.op = "start" /\ ~last.pre.stopped) =>
        /\ last.calls = <<Handler(operation_failed)>>
        /\ ~stopped_

\* C3 witness: start called on a running node.
C3_Witness ==
    /\ last.op = "start"
    /\ ~last.pre.stopped
    /\ sessions

\* C4: every call of start invokes its handler exactly once.
C4_HandlerOnce ==
    last.op = "start" => Len(HandlerCalls(last.calls)) = 1

\* C4 witness: a restart, after a stop, that reached the network, whose start
\* reported an error to the handler.
C4_Witness ==
    /\ last.op = "start"
    /\ last.pre.started_once
    /\ Called(last.calls, "network.start")
    /\ HandlerCalls(last.calls) = <<Handler(other_error)>>

\* C5: in start, network.start is called only after a chain.start that
\* succeeded; when chain.start fails the handler receives operation_failed
\* and network.start is not called.
C5_ChainBeforeNetwork ==
    last.op = "start" =>
        LET chain == FirstIndex(last.calls, "chain.start")
            network == FirstIndex(last.calls, "network.start")
        IN  /\ network > 0 =>
                  /\ chain > 0
                  /\ chain < network
                  /\ last.calls[chain].code = "true"
            /\ (chain > 0 /\ last.calls[chain].code = "false") =>
                  /\ network = 0
                  /\ HandlerCalls(last.calls) = <<Handler(operation_failed)>>
                  /\ stopped_

\* C5 witness: a start whose chain.start failed, leaving the node stopped.
C5_Witness ==
    /\ last.op = "start"
    /\ last.calls = <<Returned("chain.start", FALSE), Handler(operation_failed)>>
    /\ stopped_

\* C6: run on a stopped node invokes the handler with service_stopped and
\* does nothing else: no chain top is read, no reservation pushed, no handler
\* subscribed, the network is not run.
C6_RunWhenStopped ==
    (last.op = "run" /\ last.pre.stopped) =>
        /\ last.calls = <<Handler(service_stopped)>>
        /\ reservations_ = last.pre.reservations
        /\ top_block = last.pre.top_block
        /\ top_header = last.pre.top_header
        /\ header_subscribed = last.pre.header_subscribed
        /\ block_subscribed = last.pre.block_subscribed
        /\ ~sessions

\* C6 witness: run on a node that was started, run and then stopped.
C6_Witness ==
    /\ last.op = "run"
    /\ last.pre.stopped
    /\ last.pre.started_once
    /\ Len(reservations_) > 0

\* Some chain.get_top of the run just performed failed.
GetTopFailed ==
    /\ last.op = "run"
    /\ \E i \in 1..Len(last.calls) :
          last.calls[i].f = "chain.get_top" /\ last.calls[i].code = "false"

\* C7: when chain.get_top fails during run, for the confirmed or for the
\* candidate top, the handler is invoked with operation_failed, no
\* subscription is registered, network.run is not called and no reservation
\* is pushed.
C7_GetTopFails ==
    GetTopFailed =>
        /\ HandlerCalls(last.calls) = <<Handler(operation_failed)>>
        /\ ~Called(last.calls, "subscribe_headers")
        /\ ~Called(last.calls, "subscribe_blocks")
        /\ ~Called(last.calls, "network.run")
        /\ ~Called(last.calls, "push_front")
        /\ reservations_ = last.pre.reservations
        /\ header_subscribed = last.pre.header_subscribed
        /\ block_subscribed = last.pre.block_subscribed

\* C7 witness: the candidate get_top fails after the confirmed one succeeded,
\* on a node with nothing subscribed.
C7_Witness ==
    /\ GetTopFailed
    /\ Len(CallsOf(last.calls, "chain.get_top")) = 2
    /\ ~header_subscribed
    /\ ~block_subscribed

\* The heights run seeds: above top_valid up to the candidate height, either
\* downloadable or just above top_valid.
SeedHeights ==
    { h \in (top_valid + 1)..candidate_height :
        get_downloadable(h) \/ h = top_valid + 1 }

\* C8: starting from an empty queue, the seeding of run leaves exactly one
\* entry for each height in SeedHeights, in ascending order from the front;
\* none when the candidate height equals top_valid.
C8_SeededQueue ==
    (Seeded /\ last.pre.reservations = <<>>) =>
        /\ { reservations_[i].height : i \in 1..Len(reservations_) } = SeedHeights
        /\ Len(reservations_) = Cardinality(SeedHeights)
        /\ \A i \in 1..(Len(reservations_) - 1) :
              reservations_[i].height < reservations_[i + 1].height
        /\ candidate_height = top_valid => reservations_ = <<>>

\* C8 witness: two heights seeded and a stored one in between skipped.
C8_Witness ==
    /\ Seeded
    /\ last.pre.reservations = <<>>
    /\ Heights(reservations_) = <<1, 3>>
    /\ stored = {2}

\* The calls C9 describes: pop_back for the outgoing headers from the last to
\* the first, then push_back for the incoming ones from the first to the last.
ReindexCalls(fork_height, incoming, outgoing) ==
    [k \in 1..(Len(outgoing) + Len(incoming)) |->
        IF k <= Len(outgoing)
        THEN Call("pop_back", outgoing[Len(outgoing) - k + 1],
                  fork_height + Len(outgoing) - k + 1, success)
        ELSE Call("push_back", incoming[k - Len(outgoing)],
                  fork_height + k - Len(outgoing), success)]

\* The entries of headers placed at heights from + 1, from + 2, ...
EntriesAt(hashes, from) ==
    [i \in 1..Len(hashes) |-> reservation(hashes[i], from + i)]

\* The queue ends with the entries of the outgoing headers.
EndsWith(q, tail) ==
    /\ Len(q) >= Len(tail)
    /\ SubSeq(q, Len(q) - Len(tail) + 1, Len(q)) = tail

\* C9: handle_reindexed with non-empty incoming calls pop_back for each
\* outgoing header in reverse order at heights fork_height + |outgoing| down
\* to fork_height + 1 and then push_back for each incoming header in order at
\* heights fork_height + 1 up; when the queue ended with the outgoing headers
\* at their heights, it is afterwards the queue without them followed by the
\* incoming headers at their heights.
C9_PopThenPush ==
    Reindexed =>
        LET before == last.pre.reservations
            out == EntriesAt(last.outgoing, last.fork_height)
            inc == EntriesAt(last.incoming, last.fork_height)
        IN  /\ last.calls = ReindexCalls(last.fork_height, last.incoming, last.outgoing)
            /\ EndsWith(before, out) =>
                  reservations_ = SubSeq(before, 1, Len(before) - Len(out)) \o inc

\* C9 witness: two outgoing headers at the tail of the queue replaced by two
\* incoming ones.
C9_Witness ==
    /\ Reindexed
    /\ Len(last.outgoing) = 2
    /\ Len(last.incoming) = 2
    /\ last.pre.reservations = EntriesAt(last.outgoing, last.fork_height)
    /\ last.incoming # last.outgoing

\* C10: after handle_reindexed with non-empty incoming the cached candidate
\* top is the last incoming header at height fork_height + |incoming|,
\* whatever the number of outgoing headers, and the cached confirmed top is
\* the one before.
C10_CandidateTop ==
    Reindexed =>
        /\ top_header = checkpoint(last.incoming[Len(last.incoming)],
                                   last.fork_height + Len(last.incoming))
        /\ top_block = last.pre.top_block

\* C10 witness: more outgoing than incoming headers.
C10_Witness ==
    /\ Reindexed
    /\ Len(last.outgoing) = 2
    /\ Len(last.incoming) = 1
    /\ top_header.height = last.fork_height + 1

\* handle_reindexed has just been called with no error on a node that is not
\* stopped, with an empty or absent incoming list.
ReindexedNothing ==
    /\ last.op = "handle_reindexed"
    /\ last.ec = success
    /\ ~last.pre.stopped
    /\ (last.incoming = nullptr \/ Len(last.incoming) = 0)

\* C11: handle_reindexed with no error, node not stopped and an empty or
\* absent incoming list returns true (stay subscribed), makes no call on the
\* queue and leaves the queue and both cached tops as they were, whatever the
\* outgoing list.
C11_NothingIncoming ==
    ReindexedNothing =>
        /\ last.result = "true"
        /\ header_subscribed
        /\ last.calls = <<>>
        /\ reservations_ = last.pre.reservations
        /\ top_header = last.pre.top_header
        /\ top_block = last.pre.top_block
        /\ ~stopped_

\* C11 witness: an empty incoming list with two outgoing headers that are at
\* the tail of the queue.
C11_Witness ==
    /\ ReindexedNothing
    /\ last.incoming = <<>>
    /\ Len(last.outgoing) = 2
    /\ reservations_ = EntriesAt(last.outgoing, last.fork_height)

\* A reorganization handler has just been called.
Handled == last.op \in {"handle_reindexed", "handle_reorganized"}

\* The handler just called is still subscribed.
StillSubscribed ==
    IF last.op = "handle_reindexed" THEN header_subscribed ELSE block_subscribed

\* The handler just called left the queue and both cached tops as they were.
HandlerKeptState ==
    /\ reservations_ = last.pre.reservations
    /\ top_header = last.pre.top_header
    /\ top_block = last.pre.top_block

\* C12: a reorganization handler called while the node is stopped, or with
\* service_stopped, returns false (unsubscribe), does not call stop and leaves
\* the queue and both cached tops unchanged.
C12_StoppedUnsubscribes ==
    (Handled /\ (last.pre.stopped \/ last.ec = service_stopped)) =>
        /\ last.result = "false"
        /\ ~StillSubscribed
        /\ last.calls = <<>>
        /\ stopped_ = last.pre.stopped
        /\ sessions = ~last.pre.stopped
        /\ HandlerKeptState

\* C12 witness: handle_reorganized receives service_stopped on a node that is
\* not stopped and has reservations queued.
C12_Witness ==
    /\ last.op = "handle_reorganized"
    /\ last.ec = service_stopped
    /\ ~last.pre.stopped
    /\ ~stopped_
    /\ Len(reservations_) > 0

\* C13: a reorganization handler called on a node that is not stopped with an
\* error other than service_stopped calls stop(), returns false (unsubscribe,
\* never true) and leaves the queue and both cached tops unchanged.
C13_ErrorStops ==
    (Handled /\ ~last.pre.stopped /\ last.ec \notin {success, service_stopped}) =>
        /\ last.result = "false"
        /\ ~StillSubscribed
        /\ last.calls = <<Plain("network.stop"), Plain("chain.stop")>>
        /\ stopped_
        /\ HandlerKeptState

\* C13 witness: handle_reindexed receives an error on a node that is not
\* stopped and has reservations queued.
C13_Witness ==
    /\ last.op = "handle_reindexed"
    /\ last.ec = other_error
    /\ ~last.pre.stopped
    /\ stopped_
    /\ Len(reservations_) = 2

\* handle_reorganized has just gone through to set_top_block: no error, node
\* not stopped, incoming present and not empty.
Reorganized ==
    /\ last.op = "handle_reorganized"
    /\ last.ec = success
    /\ ~last.pre.stopped
    /\ last.incoming # nullptr
    /\ Len(last.incoming) > 0

\* C14: handle_reorganized with no error and non-empty incoming sets the
\* cached confirmed top to the last incoming block at height fork_height +
\* |incoming|; in every path it makes no call on the queue and leaves the
\* queue and the cached candidate top unchanged.
C14_ConfirmedTop ==
    /\ Reorganized =>
          top_block = checkpoint(last.incoming[Len(last.incoming)],
                                 last.fork_height + Len(last.incoming))
    /\ last.op = "handle_reorganized" =>
          /\ reservations_ = last.pre.reservations
          /\ top_header = last.pre.top_header
          /\ \A i \in 1..Len(last.calls) :
                last.calls[i].f \notin {"pop_back", "push_back", "push_front"}

\* C14 witness: two incoming blocks replace one outgoing block while the
\* queue holds reservations.
C14_Witness ==
    /\ Reorganized
    /\ Len(last.incoming) = 2
    /\ Len(last.outgoing) = 1
    /\ Len(reservations_) = 2
    /\ top_block.height = last.fork_height + 2
    /\ top_block # last.pre.top_block

\* The functions called by a log, in order, and what each returned.
Functions(calls) == [i \in 1..Len(calls) |-> calls[i].f]

Codes(calls) == [i \in 1..Len(calls) |-> calls[i].code]

\* C15: stop calls network.stop and then chain.stop, the second whatever the
\* first returned, and returns true iff both returned true.
C15_StopBoth ==
    last.op = "stop" =>
        /\ Functions(last.calls) = <<"network.stop", "chain.stop">>
        /\ last.result = "true" <=> Codes(last.calls) = <<"true", "true">>
        /\ last.result \in {"true", "false"}

\* C15 witness: on a running node network.stop fails and chain.stop, called
\* all the same, succeeds.
C15_Witness ==
    /\ last.op = "stop"
    /\ ~last.pre.stopped
    /\ Len(last.pre.reservations) > 0
    /\ Codes(last.calls) = <<"false", "true">>
    /\ last.result = "false"

\* C16: close first performs stop; if stop returned false it returns false
\* and calls neither network.close nor chain.close; otherwise it calls
\* network.close and then chain.close, the second whatever the first
\* returned, and returns true iff both returned true.
C16_CloseAfterStop ==
    last.op = "close" =>
        LET stop_ok == SubSeq(Codes(last.calls), 1, 2) = <<"true", "true">>
        IN  /\ Len(last.calls) >= 2
            /\ SubSeq(Functions(last.calls), 1, 2) = <<"network.stop", "chain.stop">>
            /\ ~stop_ok =>
                  /\ Len(last.calls) = 2
                  /\ last.result = "false"
            /\ stop_ok =>
                  /\ Functions(last.calls) = <<"network.stop", "chain.stop",
                                               "network.close", "chain.close">>
                  /\ last.result = "true" <=>
                        Codes(last.calls) = <<"true", "true", "true", "true">>
                  /\ last.result \in {"true", "false"}

\* C16 witness: stop succeeds, network.close fails and chain.close is called
\* all the same, on a node that was running.
C16_Witness ==
    /\ last.op = "close"
    /\ ~last.pre.stopped
    /\ Codes(last.calls) = <<"true", "true", "false", "true">>
    /\ last.result = "false"

\* The shutdown path of monitor_stop.
ShutdownPath == <<"stop", "close", "release">>

IsPrefix(a, b) == Len(a) <= Len(b) /\ a = SubSeq(b, 1, Len(a))

\* The executor has a node and a reason to shut it down: the interrupt flag
\* is set or the node reports stopped.
ShutdownDue == node_ = "node" /\ (executor_stopped_ \/ stopped_)

\* The shutdown calls made so far are node.stop, node.close and the release
\* in that order; node.stop is only about to be called when the flag is set
\* or the node reports stopped; and run returns true when the stop handler
\* received success.
ShutdownInOrder ==
    /\ IsPrefix(shutdown, ShutdownPath)
    /\ pc = "stop" => (executor_stopped_ \/ stopped_)
    /\ shutdown # <<>> => pc \in {"close", "release", "wait", "done"}
    /\ (node_ = "null" /\ shutdown # <<>>) => shutdown = ShutdownPath
    /\ (pc = "done" /\ promise = success) => returned = "true"

\* C19: once the interrupt flag is set or the node reports stopped, the
\* executor eventually calls node.stop, then node.close, then releases the
\* node, in that order and never before one of the two holds; when the stop
\* handler receives success run returns true.
C19_Shutdown ==
    /\ []ShutdownInOrder
    /\ ShutdownDue ~> (shutdown = ShutdownPath /\ node_ = "null")

\* C19 witness: with no signal, a chain failure made the node stop itself;
\* the executor went through the shutdown path and run returned true.
C19_Witness ==
    /\ pc = "done"
    /\ ~executor_stopped_
    /\ seeded_ec = success
    /\ shutdown = ShutdownPath
    /\ node_ = "null"
    /\ returned = "true"

\* C20: when the start handler received an error, executor::run returns
\* false, whatever the stop handler receives afterwards.
C20_FailedStartFails ==
    (pc = "done" /\ seeded_ec \notin {"none", success}) => returned = "false"

\* C27: when the handler of run receives operation_failed, both cached tops
\* are the ones before the call; in particular when the candidate get_top
\* fails the cached confirmed top is the one before the call.
C27_FailedRunKeepsTops ==
    (last.op = "run" /\ HandlerCalls(last.calls) = <<Handler(operation_failed)>>) =>
        /\ top_block = last.pre.top_block
        /\ top_header = last.pre.top_header

\* The entries run pushed: the push_front calls of its log.
SeedPushes == CallsOf(last.calls, "push_front")

\* C25: every entry run's seeding pushes at a height carries the hash of the
\* candidate header at that height, the entry forced at top_valid + 1
\* included.
C25_SeededHashes ==
    Seeded =>
        \A i \in 1..Len(SeedPushes) :
            SeedPushes[i].hash = candidate_hash(SeedPushes[i].height)

\* No two entries of the queue share both hash and height.
NoDuplicates(q) ==
    \A i \in 1..Len(q) : \A j \in (i + 1)..Len(q) : q[i] # q[j]

\* C21: in every reachable state no two entries of the queue share both hash
\* and height.
C21_NoDuplicates == NoDuplicates(reservations_)

\* The heights the loop of run visited: the get_downloadable calls of its log.
SeedQueries == CallsOf(last.calls, "chain.get_downloadable")

\* C24: the re-seeding loop of run ends after candidate.height - top_valid
\* iterations, visiting the heights from candidate.height down to
\* top_valid + 1 once each: never height 0, and never a height whose decrement
\* would pass below zero.
C24_SeedLoop ==
    Seeded =>
        /\ Len(SeedQueries) = candidate_height - top_valid
        /\ \A i \in 1..Len(SeedQueries) :
               /\ SeedQueries[i].height = candidate_height - i + 1
               /\ SeedQueries[i].height > top_valid
               /\ SeedQueries[i].height <= candidate_height
               /\ SeedQueries[i].height - 1 >= 0

C24_Witness ==
    /\ Seeded
    /\ top_valid = 0
    /\ Len(SeedQueries) >= 2

\* Number of entries of the queue equal to e.
Queued(e) == Cardinality({ i \in 1..Len(reservations_) : reservations_[i] = e })

IsSeeding(c) == c.f \in {"chain.get_downloadable", "push_front"}

\* The seeding of the handle_running in progress is not complete.
Seeding == \E i \in 1..Len(running.calls) : IsSeeding(running.calls[i])

\* In the calls handle_running has still to make, no call of the seeding loop
\* comes after a subscription or p2p::run and no subscription after p2p::run.
SeedSubscribeRun ==
    \A i \in 1..Len(running.calls) : \A j \in (i + 1)..Len(running.calls) :
        /\ IsSeeding(running.calls[j]) =>
               running.calls[i].f \notin {"subscribe_headers", "subscribe_blocks",
                                          "network.run"}
        /\ running.calls[j].f \in {"subscribe_headers", "subscribe_blocks"} =>
               running.calls[i].f # "network.run"

====
